---- MODULE Spec2Model ----
(***************************************************************************)
(* The compiled-analysis subprocess of jedi                                *)
(* (jedi/inference/compiled/subprocess/__init__.py): the host-side manager *)
(* CompiledSubprocess, the per-context dispatcher InferenceStateSubprocess,*)
(* the worker-side Listener, the two pipes between them, the handle        *)
(* registries of both sides and the method calls on an AccessHandle.       *)
(*                                                                         *)
(* The host is one sequential thread: an operation is split only where it  *)
(* blocks on the pipe (hpc tells where it stands).  The worker is a second *)
(* process that may die at any moment.                                     *)
(*                                                                         *)
(* Spec is the manager, its dispatchers and the worker, with calls that    *)
(* carry no handles; SpecCalls adds handle arguments, operations that end  *)
(* the listener and the death of the host; SpecHandles, SpecRegistry and   *)
(* SpecAccess see the handle conversion, the registries and one            *)
(* AccessHandle alone.                                                     *)
(***************************************************************************)
EXTENDS Integers, Sequences, FiniteSets, TLC

\* ------------------------------------------------------------------ bounds
NumCtx == 2
MaxCalls == 3
MaxKill == 2
NumHandleIds == 2
MaxConv == 3
MaxAccess == 3

\* --------------------------------------------------------------- constants
\* Python's None as a context id (get_sys_path sends it); real ids are 1..NumCtx.
NoneId == 0
\* Python's None as a function (a deletion notice sends it).
NoneFn == "None"
Ctx == 1..NumCtx
\* The closed registry of worker-side operations, by what they do there.
Fns == {"f_ok", "f_raise"}
\* The arguments of a call: pick tells whether pickle can dump them, obj names
\* the worker object the operation wraps in a handle (0: none), harg is the id
\* of an AccessHandle passed as an argument (0: none).
Args(fn, pick, obj, harg) == [fn |-> fn, pick |-> pick, obj |-> obj, harg |-> harg]
\* The calls a caller can make without handles: an operation with arguments
\* pickle can dump, or with arguments it cannot.
CallArgs == {Args(f, TRUE, 0, 0) : f \in Fns} \cup {Args("f_ok", FALSE, 0, 0)}

VARIABLES
    \* CompiledSubprocess
    is_crashed,                   \* self.is_crashed
    _infer_state_deletion_queue,  \* deque of context ids, appended on the right
    memo_process,                 \* memoized result of _get_process: "none" | "proc"
    _cleanup_callable,            \* "noop" (lambda) | "finalize" (alive) | "dead" (ran)
    \* InferenceStateSubprocess, one per context id
    live,                         \* the dispatcher object exists
    _used,                        \* self._used
    \* the host thread
    hpc,                          \* "idle" | "run" | "send" | "recv" | "gone"
    hop,                          \* the operation under way
    hreq,                         \* the request of the _send under way
    hres,                         \* how the last operation ended
    hprev,                        \* the operation before it raised a remote failure
    \* the worker process
    wstate,                       \* "none" | "running" | "dead" | "exit0" (exit code 0)
    wpc,                          \* "load" | "dump"
    wres,                         \* the response about to be dumped
    _infer_states,                \* Listener._infer_states: ctx -> session object, 0 absent
    nSessions,                    \* session objects constructed so far (object identity)
    wregs,                        \* ctx -> _handles of the session's _InferenceStateProcess
    \* the pipes
    reqChan,                      \* worker stdin
    respChan,                     \* worker stdout
    reqEnd,                       \* worker stdin after reqChan: "open" | "closed" | "cut"
    \* history
    nCalls, nWritten, nRead, nSpawned, nCleanup, nKill,
    passed,                       \* some _send got past the is_crashed test
    runStart,                     \* the deletion queue when the current run began
    answered,                     \* deletion notices answered within the current run
    created,                      \* ctx -> session objects made since its last deletion
    sessUsed,                     \* ctx -> the session object of each call since then
    deletedSess,                  \* <<ctx, session object>> removed by a deletion notice
    \* one InferenceStateSubprocess seen alone: its handle registry
    _handles,                     \* self._handles: remote id -> AccessHandle, NoHandle absent
    decoded,                      \* the result of run as pickle_load built it
    converted,                    \* what the wrapper returned for it
    nConv,                        \* results received and handles asked for so far
    \* one AccessHandle of the host seen alone
    _memoize_method_dct,          \* the cache of _cached_results: key -> result, 0 absent
    nDispatch,                    \* calls of _subprocess.get_compiled_method_return so far
    nAccess,                      \* method calls on the handle so far
    acall                         \* the last method call and how it went

mgrVars == <<is_crashed, memo_process, _cleanup_callable, wstate, nSpawned, nCleanup, nKill>>
dispVars == <<live, _used>>
hostVars == <<hpc, hop, hreq, hres, hprev>>
workerVars == <<wpc, wres, _infer_states, nSessions, created, sessUsed, deletedSess,
               wregs>>
runVars == <<runStart, answered>>
handleVars == <<_handles, decoded, converted, nConv>>
accessVars == <<_memoize_method_dct, nDispatch, nAccess, acall>>
restVars == <<handleVars, accessVars, reqEnd>>
vars == <<is_crashed, _infer_state_deletion_queue, memo_process, _cleanup_callable,
          live, _used, hpc, hop, hreq, hres, hprev, wstate, wpc, wres, _infer_states,
          nSessions, reqChan, respChan, nCalls, nWritten, nRead, nSpawned, nCleanup,
          nKill, passed, runStart, answered, created, sessUsed, deletedSess,
          _handles, decoded, converted, nConv, wregs, reqEnd,
          _memoize_method_dct, nDispatch, nAccess, acall>>

\* ------------------------------------------------------------------ values
NoVal == [fn |-> NoneFn, sess |-> 0, h |-> 0]
NoExc == [type |-> "None", args |-> <<>>]
\* A response: pick tells whether pickle can dump it.
NoResp == [wire |-> "none", is_exception |-> FALSE, traceback |-> "None",
           exc |-> NoExc, val |-> NoVal, seq |-> 0, pick |-> TRUE]
NoRes == [kind |-> "none", exc |-> NoExc, val |-> NoVal, why |-> "none",
          seq |-> 0, rseq |-> 0]
NoOp == [kind |-> "none", ctx |-> NoneId, fn |-> NoneFn, pick |-> TRUE,
         obj |-> 0, harg |-> 0]
NoReq == [ctx |-> NoneId, fn |-> NoneFn, pick |-> TRUE, real |-> FALSE, seq |-> 0,
          obj |-> 0, harg |-> 0]

\* deque.pop() takes the right end: what stays and what is taken.
FrontKeeps(s) == s

Front(s) == SubSeq(s, 1, Len(s) - 1)
Last(s) == s[Len(s)]

\* The bytes of a response cut short by the death of the worker inside pickle_dump.
Truncated == [NoResp EXCEPT !.wire = "trunc"]

\* What pickle_load can raise on a stream that ends inside an object: EOFError
\* or another unpickling error, depending on where the bytes stop.
TruncatedLoadErrors == {"EOFError", "UnpicklingError"}

InternalError(why, req) ==
    [kind |-> "raise", exc |-> [type |-> "InternalError", args |-> <<why>>],
     val |-> NoVal, why |-> why, seq |-> req.seq, rseq |-> 0]

OtherError(type, why, req) ==
    [kind |-> "raise", exc |-> [type |-> type, args |-> <<>>],
     val |-> NoVal, why |-> why, seq |-> req.seq, rseq |-> 0]

\* ------------------------------------------------- results carrying handles
HandleIds == 1..NumHandleIds

\* A result value: t is its type, items its elements in order.  An AccessHandle
\* has the remote id, the identity of the host object (inst: the message that
\* built it, 0 on the wire) and the dispatcher it belongs to (_subprocess).
Val(t, items) == [t |-> t, id |-> 0, inst |-> 0, owner |-> "none", items |-> items]
Scalar == Val("scalar", <<>>)
Handle(i) == [t |-> "handle", id |-> i, inst |-> 0, owner |-> "none", items |-> <<>>]
NoHandle == Val("none", <<>>)

Leaves == {Scalar} \cup {Handle(i) : i \in HandleIds}
ShortSeqs(S) == {<<a>> : a \in S} \cup {<<a, b>> : a \in S, b \in S}
NamePairs == {Val("tuple", <<Scalar, Handle(i)>>) : i \in HandleIds}

\* The results the worker can send: scalars and handles, sequences and
\* parameter descriptors of them, access paths, nestings three deep, and a
\* mapping holding a handle.
WireValues ==
    Leaves
    \cup {Val(k, q) : k \in {"tuple", "list", "SignatureParam"}, q \in ShortSeqs(Leaves)}
    \cup {Val("AccessPath", <<Val("list", q)>>) : q \in ShortSeqs(NamePairs)}
    \cup {Val("list", <<Handle(i), Val("tuple", <<Handle(j)>>)>>) :
             i \in HandleIds, j \in HandleIds}
    \cup {Val("tuple", <<Val("list", <<Val("SignatureParam", <<Scalar, Handle(i)>>)>>),
                         Handle(j)>>) : i \in HandleIds, j \in HandleIds}
    \cup {Val("dict", <<Handle(i)>>) : i \in HandleIds}

\* pickle_load of message n: AccessHandle.__setstate__ sets the id alone on a
\* new object; the objects of one message are told from those of another.
RECURSIVE Unpickle(_, _)
Unpickle(v, n) ==
    IF v.t = "handle" THEN [v EXCEPT !.inst = n]
    ELSE [v EXCEPT !.items = [k \in 1..Len(v.items) |-> Unpickle(v.items[k], n)]]

\* The AccessHandle branch of _convert_access_handles without the lookup.
ConvertHandleNoLookup(obj, reg) ==
    LET h == [obj EXCEPT !.owner = "host"]
    IN [obj |-> h, reg |-> IF reg[obj.id] = NoHandle THEN [reg EXCEPT ![obj.id] = h]
                           ELSE reg]

\* The AccessHandle branch of _convert_access_handles: get_access_handle, and
\* on KeyError add_subprocess and set_access_handle.
ConvertHandle(obj, reg) ==
    IF reg[obj.id] # NoHandle
    THEN [obj |-> reg[obj.id], reg |-> reg]
    ELSE LET h == [obj EXCEPT !.owner = "host"]
         IN [obj |-> h, reg |-> [reg EXCEPT ![obj.id] = h]]

\* InferenceStateSubprocess._convert_access_handles: the rewritten object and
\* the registry after it; the elements of a sequence are taken left to right.
RECURSIVE _convert_access_handles(_, _)
RECURSIVE ConvertItems(_, _)
ConvertItems(items, reg) ==
    IF items = <<>> THEN [items |-> <<>>, reg |-> reg]
    ELSE LET h == _convert_access_handles(Head(items), reg)
             r == ConvertItems(Tail(items), h.reg)
         IN [items |-> <<h.obj>> \o r.items, reg |-> r.reg]

_convert_access_handles(obj, reg) ==
    IF obj.t \in {"SignatureParam", "tuple", "list", "AccessPath"}
    THEN LET r == ConvertItems(obj.items, reg)
         IN [obj |-> [obj EXCEPT !.items = r.items], reg |-> r.reg]
    ELSE IF obj.t = "handle"
    THEN ConvertHandle(obj, reg)
    ELSE [obj |-> obj, reg |-> reg]

\* ---------------------------------------------------------- AccessHandle
\* The attribute names asked of a handle: two operations of the access
\* object and a private name.
OpNames == {"py__getitem__", "get_safe_value"}
AttrNames == OpNames \cup {"_private"}
\* The arguments of a method call: args is the tuple of positional arguments,
\* each a hashable value ("x") or a slice object; kwargs is the value of the
\* one keyword argument, "none" when there is none.
ArgTuples == {<<>>, <<"x">>, <<"slice">>, <<"x", "slice">>}
AccessKeys == [name : AttrNames, args : ArgTuples, kwargs : {"none", "slice"}]

\* A slice object is among the arguments.
HasSlice(k) == (\E j \in 1..Len(k.args) : k.args[j] = "slice") \/ k.kwargs = "slice"

NoCall == [key |-> [name |-> "None", args |-> <<>>, kwargs |-> "none"],
           path |-> "none", dispatched |-> 0, known |-> FALSE,
           outcome |-> "none", result |-> 0]

\* self._subprocess.get_compiled_method_return(self.id, name, *args, **kwargs),
\* dispatcher call n + 1: it returns a result (told from the results of other
\* calls by n + 1) or raises.
get_compiled_method_return(k, n, ok) ==
    [n |-> n + 1, outcome |-> IF ok THEN "return" ELSE "raise",
     result |-> IF ok THEN n + 1 ELSE 0]

\* A method under @memoize_method, called with key k = (name, args, kwargs):
\* a key that does not hash raises TypeError; a key in the cache returns the
\* cached result; otherwise the method is called and its result, if it
\* returns one, is cached.
memoize_method(k, cache, n, ok) ==
    IF HasSlice(k)
    THEN [cache |-> cache, n |-> n,
          call |-> [key |-> k, path |-> "memoized", dispatched |-> 0, known |-> FALSE,
                    outcome |-> "raise TypeError", result |-> 0]]
    ELSE IF cache[k] # 0
    THEN [cache |-> cache, n |-> n,
          call |-> [key |-> k, path |-> "memoized", dispatched |-> 0, known |-> TRUE,
                    outcome |-> "return", result |-> cache[k]]]
    ELSE LET d == get_compiled_method_return(k, n, ok)
         IN [cache |-> IF ok THEN [cache EXCEPT ![k] = d.result] ELSE cache,
             n |-> d.n,
             call |-> [key |-> k, path |-> "memoized", dispatched |-> 1,
                       known |-> FALSE, outcome |-> d.outcome, result |-> d.result]]

\* AccessHandle._cached_results
_cached_results(k, cache, n, ok) == memoize_method(k, cache, n, ok)

\* AccessHandle._workaround: if args and isinstance(args[0], slice)
_workaround(k, cache, n, ok) ==
    IF k.args # <<>> /\ k.args[1] = "slice"
    THEN LET d == get_compiled_method_return(k, n, ok)
         IN [cache |-> cache, n |-> d.n,
             call |-> [key |-> k, path |-> "raw", dispatched |-> 1, known |-> FALSE,
                       outcome |-> d.outcome, result |-> d.result]]
    ELSE _cached_results(k, cache, n, ok)

\* AccessHandle.__getattr__ and the call of what it returns
__getattr__(k, cache, n, ok) ==
    IF k.name \in {"id", "access"} \/ k.name = "_private"
    THEN [cache |-> cache, n |-> n,
          call |-> [key |-> k, path |-> "none", dispatched |-> 0, known |-> FALSE,
                    outcome |-> "raise AttributeError", result |-> 0]]
    ELSE _workaround(k, cache, n, ok)

\* ------------------------------------------------ _InferenceStateProcess
\* A registry with no entry.
EmptyReg == [i \in HandleIds |-> NoHandle]

\* get_access_handle: self._handles[id_]; NoHandle stands for KeyError.
get_access_handle(reg, id) == reg[id]

\* set_access_handle: self._handles[handle.id] = handle
set_access_handle(reg, handle) == [reg EXCEPT ![handle.id] = handle]

\* get_or_create_access_handle without the lookup.
get_or_create_always_new(reg, id, owner, inst) ==
    LET h == [Handle(id) EXCEPT !.owner = owner, !.inst = inst]
    IN [handle |-> h, reg |-> set_access_handle(reg, h)]

\* get_or_create_access_handle for the object of id id: the registered handle,
\* or a new AccessHandle(self, access, id_) (owner: self, inst: its identity)
\* that is registered.
get_or_create_access_handle(reg, id, owner, inst) ==
    IF get_access_handle(reg, id) # NoHandle
    THEN [handle |-> get_access_handle(reg, id), reg |-> reg]
    ELSE LET h == [Handle(id) EXCEPT !.owner = owner, !.inst = inst]
         IN [handle |-> h, reg |-> set_access_handle(reg, h)]

\* -------------------------------------------------- CompiledSubprocess, pure
Mgr == [is_crashed |-> is_crashed, memo_process |-> memo_process,
        cleanup |-> _cleanup_callable, wstate |-> wstate,
        nSpawned |-> nSpawned, nCleanup |-> nCleanup, nKill |-> nKill]

SetMgr(m) ==
    /\ is_crashed' = m.is_crashed
    /\ memo_process' = m.memo_process
    /\ _cleanup_callable' = m.cleanup
    /\ wstate' = m.wstate
    /\ nSpawned' = m.nSpawned
    /\ nCleanup' = m.nCleanup
    /\ nKill' = m.nKill

\* _cleanup_process: kill and wait for the worker, join the thread, close the streams.
_cleanup_process(m) ==
    [m EXCEPT !.wstate = IF @ = "exit0" THEN @ ELSE "dead", !.nCleanup = @ + 1]

\* self._cleanup_callable(): the lambda does nothing; a weakref.finalize runs its
\* callback on the first call only.
CallCleanupEveryTime(m) ==
    IF m.cleanup = "noop" THEN m
    ELSE [_cleanup_process(m) EXCEPT !.cleanup = "dead"]

CallCleanup(m) ==
    IF m.cleanup = "finalize"
    THEN [_cleanup_process(m) EXCEPT !.cleanup = "dead"]
    ELSE m

_kill_keeps_flag(m) ==
    [CallCleanup(m) EXCEPT !.nKill = @ + 1]

_kill(m) ==
    [CallCleanup([m EXCEPT !.is_crashed = TRUE]) EXCEPT !.nKill = @ + 1]

\* _get_process under @memoize_method: Popen runs only when nothing is memoized;
\* a Popen that raises memoizes nothing.  w is the state of the fresh worker when
\* the request is written (it may already have died).
_get_process_unmemoized(m, ok, w) ==
    IF ok
    THEN [m EXCEPT !.memo_process = "proc", !.cleanup = "finalize", !.wstate = w,
                   !.nSpawned = @ + 1]
    ELSE m

_get_process(m, ok, w) ==
    IF m.memo_process = "proc" THEN m
    ELSE IF ok
    THEN [m EXCEPT !.memo_process = "proc", !.cleanup = "finalize", !.wstate = w,
                   !.nSpawned = @ + 1]
    ELSE m

\* The test at the head of _send.
CrashedTestOff(m) == FALSE

CrashedTest(m) == m.is_crashed

\* ------------------------------------------------------------ Listener, pure
\* Listener._get_infer_state: the session of the id, made when absent.
_get_infer_state_always_new(states, n, id) ==
    [states |-> [states EXCEPT ![id] = n + 1], n |-> n + 1, sess |-> n + 1]

_get_infer_state(states, n, id) ==
    IF states[id] # 0
    THEN [states |-> states, n |-> n, sess |-> states[id]]
    ELSE [states |-> [states EXCEPT ![id] = n + 1], n |-> n + 1, sess |-> n + 1]

\* What the named operation does in the worker when it touches no handle:
\* it returns, or raises an exception (f_raise, f_lookup), or raises one that
\* pickle cannot dump (f_raise_unpicklable: an instance of a local class).
Invoke(fn, sess) ==
    IF fn = "f_raise"
    THEN [NoResp EXCEPT !.wire = "ok", !.is_exception = TRUE,
                        !.traceback = "Traceback: ValueError: boom",
                        !.exc = [type |-> "ValueError", args |-> <<"boom">>]]
    ELSE IF fn = "f_lookup"
    THEN [NoResp EXCEPT !.wire = "ok", !.is_exception = TRUE,
                        !.traceback = "Traceback: _run: f_lookup: KeyError",
                        !.exc = [type |-> "KeyError", args |-> <<"key">>]]
    ELSE IF fn = "f_raise_unpicklable"
    THEN [NoResp EXCEPT !.wire = "ok", !.is_exception = TRUE,
                        !.traceback = "Traceback: _run: f_raise_unpicklable: LocalError",
                        !.exc = [type |-> "LocalError", args |-> <<>>],
                        !.pick = FALSE]
    ELSE [NoResp EXCEPT !.wire = "ok", !.val = [fn |-> fn, sess |-> sess, h |-> 0]]

\* del self._infer_states[infer_state_id]
DelStateClearsAll(states, id) ==
    IF states[id] # 0
    THEN [states |-> [c \in Ctx |-> 0], sess |-> 0,
          resp |-> [NoResp EXCEPT !.wire = "ok"]]
    ELSE [states |-> states, sess |-> 0,
          resp |-> [NoResp EXCEPT !.wire = "ok", !.is_exception = TRUE,
                                  !.traceback = "Traceback: _run: del: KeyError",
                                  !.exc = [type |-> "KeyError", args |-> <<"id">>]]]

DelState(states, id) ==
    IF states[id] # 0
    THEN [states |-> [states EXCEPT ![id] = 0], sess |-> 0,
          resp |-> [NoResp EXCEPT !.wire = "ok"]]
    ELSE [states |-> states, sess |-> 0,
          resp |-> [NoResp EXCEPT !.wire = "ok", !.is_exception = TRUE,
                                  !.traceback = "Traceback: _run: del: KeyError",
                                  !.exc = [type |-> "KeyError", args |-> <<"id">>]]]

\* The failure response to a request whose AccessHandle argument has no entry
\* in the registry of the session: get_access_handle raised KeyError in _run.
StaleHandleResponse ==
    [NoResp EXCEPT !.wire = "ok", !.is_exception = TRUE,
                   !.traceback = "Traceback: _run: get_access_handle: KeyError",
                   !.exc = [type |-> "KeyError", args |-> <<"id">>]]

\* The operation of request p on session sess, whose registry is reg: f_exit
\* raises SystemExit (sys.exit() in code the operation imports), f_create
\* wraps the object of id p.obj in a handle and returns it.
Operation(p, sess, reg) ==
    IF p.fn = "f_exit"
    THEN [resp |-> NoResp, reg |-> reg, escaped |-> TRUE]
    ELSE IF p.fn = "f_create"
    THEN LET g == get_or_create_access_handle(reg, p.obj, "worker", p.seq)
         IN [resp |-> [NoResp EXCEPT !.wire = "ok",
                                     !.val = [fn |-> p.fn, sess |-> sess,
                                              h |-> g.handle.id]],
             reg |-> g.reg, escaped |-> FALSE]
    ELSE [resp |-> Invoke(p.fn, sess), reg |-> reg, escaped |-> FALSE]

\* Listener._run with the try/except of listen around it: the new session map,
\* the session count, the session the operation ran on (0: none), the response.
\* regs are the handle registries of the sessions; escaped tells that what
\* was raised is no Exception and left listen.
_run(p, states, n, regs) ==
    IF p.ctx = NoneId
    THEN [states |-> states, n |-> n, sess |-> 0, resp |-> Invoke(p.fn, 0),
          regs |-> regs, escaped |-> FALSE]
    ELSE IF p.fn = NoneFn
    THEN LET d == DelState(states, p.ctx)
         IN [states |-> d.states, n |-> n, sess |-> 0, resp |-> d.resp,
             regs |-> IF d.resp.is_exception THEN regs
                      ELSE [regs EXCEPT ![p.ctx] = EmptyReg],
             escaped |-> FALSE]
    ELSE LET g == _get_infer_state(states, n, p.ctx)
         IN IF p.harg # 0 /\ get_access_handle(regs[p.ctx], p.harg) = NoHandle
            THEN [states |-> g.states, n |-> g.n, sess |-> g.sess,
                  resp |-> StaleHandleResponse, regs |-> regs, escaped |-> FALSE]
            ELSE LET o == Operation(p, g.sess, regs[p.ctx])
                 IN [states |-> g.states, n |-> g.n, sess |-> g.sess,
                     resp |-> o.resp, regs |-> [regs EXCEPT ![p.ctx] = o.reg],
                     escaped |-> o.escaped]

\* The operation under way ends with res: _send raises or returns to the caller.
Finish(res) ==
    /\ hpc' = "idle"
    /\ hres' = res
    /\ hreq' = NoReq
    /\ runStart' = <<>>
    /\ answered' = <<>>

\* -------------------------------------------------------------------- Init
Init ==
    /\ is_crashed = FALSE
    /\ _infer_state_deletion_queue = <<>>
    /\ memo_process = "none"
    /\ _cleanup_callable = "noop"
    /\ live = [c \in Ctx |-> FALSE]
    /\ _used = [c \in Ctx |-> FALSE]
    /\ hpc = "idle"
    /\ hop = NoOp
    /\ hreq = NoReq
    /\ hres = NoRes
    /\ hprev = FALSE
    /\ wstate = "none"
    /\ wpc = "load"
    /\ wres = NoResp
    /\ _infer_states = [c \in Ctx |-> 0]
    /\ nSessions = 0
    /\ wregs = [c \in Ctx |-> EmptyReg]
    /\ reqEnd = "open"
    /\ reqChan = <<>>
    /\ respChan = <<>>
    /\ nCalls = 0 /\ nWritten = 0 /\ nRead = 0
    /\ nSpawned = 0 /\ nCleanup = 0 /\ nKill = 0
    /\ passed = FALSE
    /\ runStart = <<>>
    /\ answered = <<>>
    /\ created = [c \in Ctx |-> 0]
    /\ sessUsed = [c \in Ctx |-> <<>>]
    /\ deletedSess = {}
    /\ _handles = [i \in HandleIds |-> NoHandle]
    /\ decoded = NoHandle
    /\ converted = NoHandle
    /\ nConv = 0
    /\ _memoize_method_dct = [k \in AccessKeys |-> 0]
    /\ nDispatch = 0
    /\ nAccess = 0
    /\ acall = NoCall

\* The memory of a worker that is gone.
WorkerGone ==
    /\ wpc' = "load"
    /\ wres' = NoResp
    /\ _infer_states' = [c \in Ctx |-> 0]
    /\ nSessions' = nSessions
    /\ created' = [c \in Ctx |-> 0]
    /\ sessUsed' = [c \in Ctx |-> <<>>]
    /\ deletedSess' = {}
    /\ wregs' = [c \in Ctx |-> EmptyReg]

\* The worker's memory after a host step that left the manager as m.
WorkerAfter(m) ==
    IF wstate = "running" /\ m.wstate = "dead"
    THEN WorkerGone
    ELSE UNCHANGED workerVars

\* ------------------------------------------------------------ host actions
\* InferenceStateSubprocess.__init__
New(c) ==
    /\ UNCHANGED restVars
    /\ hpc = "idle"
    /\ ~live[c]
    /\ live' = [live EXCEPT ![c] = TRUE]
    /\ _used' = [_used EXCEPT ![c] = FALSE]
    /\ UNCHANGED <<mgrVars, _infer_state_deletion_queue, hostVars, workerVars,
                   reqChan, respChan, nCalls, nWritten, nRead, passed, runVars>>

\* CompiledSubprocess.delete_infer_state
delete_infer_state(q, id) == Append(q, id)

\* The test of __del__: self._used and not self._compiled_subprocess.is_crashed
DelTestUsedOnly(used, crashed) == used

DelTest(used, crashed) == used /\ ~crashed

\* InferenceStateSubprocess.__del__
Del(c) ==
    /\ UNCHANGED restVars
    /\ hpc = "idle"
    /\ live[c]
    /\ live' = [live EXCEPT ![c] = FALSE]
    /\ _used' = [_used EXCEPT ![c] = FALSE]
    /\ _infer_state_deletion_queue' =
           IF DelTest(_used[c], is_crashed)
           THEN delete_infer_state(_infer_state_deletion_queue, c)
           ELSE _infer_state_deletion_queue
    /\ UNCHANGED <<mgrVars, hostVars, workerVars, reqChan, respChan,
                   nCalls, nWritten, nRead, passed, runVars>>

\* InferenceStateSubprocess.__getattr__.wrapper, up to the entry of run
Call(c, fn, pick, obj, harg) ==
    /\ UNCHANGED restVars
    /\ hpc = "idle"
    /\ live[c]
    /\ nCalls < MaxCalls
    /\ _used' = [_used EXCEPT ![c] = TRUE]
    /\ hop' = [kind |-> "run", ctx |-> c, fn |-> fn, pick |-> pick,
               obj |-> obj, harg |-> harg]
    /\ hpc' = "run"
    /\ hreq' = NoReq
    /\ hres' = NoRes
    /\ hprev' = (hres.why = "remote")
    /\ nCalls' = nCalls + 1
    /\ runStart' = _infer_state_deletion_queue
    /\ answered' = <<>>
    /\ UNCHANGED <<mgrVars, _infer_state_deletion_queue, live, workerVars,
                   reqChan, respChan, nWritten, nRead, passed>>

\* The next request of run: the notice of the id popped from the right end of
\* the queue, or the real request when the queue is empty.
NextOfRunSkipsQueue(q, op) ==
    [queue |-> q,
     req |-> [ctx |-> op.ctx, fn |-> op.fn, pick |-> op.pick, real |-> TRUE, seq |-> 0,
              obj |-> op.obj, harg |-> op.harg]]

NextOfRun(q, op) ==
    IF q # <<>>
    THEN [queue |-> Front(q),
          req |-> [ctx |-> Last(q), fn |-> NoneFn, pick |-> TRUE, real |-> FALSE,
                   seq |-> 0, obj |-> 0, harg |-> 0]]
    ELSE [queue |-> q,
          req |-> [ctx |-> op.ctx, fn |-> op.fn, pick |-> op.pick, real |-> TRUE,
                   seq |-> 0, obj |-> op.obj, harg |-> op.harg]]

\* CompiledSubprocess.run, one turn of its loop up to the call of _send
RunLoop ==
    /\ UNCHANGED restVars
    /\ hpc = "run"
    /\ LET nx == NextOfRun(_infer_state_deletion_queue, hop)
       IN /\ _infer_state_deletion_queue' = nx.queue
          /\ hreq' = nx.req
    /\ hpc' = "send"
    /\ UNCHANGED <<mgrVars, dispVars, hop, hres, hprev, workerVars, reqChan, respChan,
                   nCalls, nWritten, nRead, passed, runVars>>

\* CompiledSubprocess.get_sys_path, up to the call of _send
GetSysPath ==
    /\ UNCHANGED restVars
    /\ hpc = "idle"
    /\ nCalls < MaxCalls
    /\ hop' = [kind |-> "get_sys_path", ctx |-> NoneId, fn |-> "get_sys_path",
               pick |-> TRUE, obj |-> 0, harg |-> 0]
    /\ hreq' = [ctx |-> NoneId, fn |-> "get_sys_path", pick |-> TRUE, real |-> TRUE,
                seq |-> 0, obj |-> 0, harg |-> 0]
    /\ hpc' = "send"
    /\ hres' = NoRes
    /\ hprev' = (hres.why = "remote")
    /\ nCalls' = nCalls + 1
    /\ UNCHANGED <<mgrVars, _infer_state_deletion_queue, dispVars, workerVars,
                   reqChan, respChan, nWritten, nRead, passed, runVars>>

\* Where _send stands after a successful write: it blocks reading the response.
AfterWriteNoWait(req) == IF req.real THEN "recv" ELSE "run"

AfterWrite(req) == "recv"

\* CompiledSubprocess._send, first half: the is_crashed test, _get_process and
\* pickle_dump of the request.
Send ==
    /\ UNCHANGED restVars
    /\ hpc = "send"
    /\ IF CrashedTest(Mgr)
       THEN /\ Finish(InternalError("crashed", hreq))
            /\ UNCHANGED <<mgrVars, workerVars, reqChan, nWritten, passed>>
       ELSE /\ passed' = TRUE
            /\ \E ok \in BOOLEAN, w \in {"running", "dead"} :
                 LET m == _get_process(Mgr, ok, w)
                 IN IF m.memo_process = "none"
                    THEN \* Popen raised
                         /\ w = "running"
                         /\ SetMgr(m)
                         /\ Finish(OtherError("OSError", "spawn_error", hreq))
                         /\ UNCHANGED <<workerVars, reqChan, nWritten>>
                    ELSE /\ (Mgr.memo_process = "proc") => (ok /\ w = "running")
                         /\ IF ~hreq.pick
                            THEN \* pickle_dump raised something that is no broken pipe
                                 /\ SetMgr(m)
                                 /\ Finish(OtherError("PicklingError", "other_error", hreq))
                                 /\ UNCHANGED <<workerVars, reqChan, nWritten>>
                            ELSE IF m.wstate # "running"
                            THEN \* EPIPE / EINVAL
                                 /\ SetMgr(_kill(m))
                                 /\ Finish(InternalError("EPIPE", hreq))
                                 /\ UNCHANGED <<workerVars, reqChan, nWritten>>
                            ELSE /\ SetMgr(m)
                                 /\ nWritten' = nWritten + 1
                                 /\ hreq' = [hreq EXCEPT !.seq = nWritten + 1]
                                 /\ reqChan' = Append(reqChan,
                                        [ctx |-> hreq.ctx, fn |-> hreq.fn,
                                         seq |-> nWritten + 1,
                                         obj |-> hreq.obj, harg |-> hreq.harg])
                                 /\ hpc' = AfterWrite(hreq)
                                 /\ UNCHANGED <<hres, runVars, workerVars>>
    /\ UNCHANGED <<_infer_state_deletion_queue, dispVars, hop, hprev, respChan,
                   nCalls, nRead>>

\* The exception _send raises for a failure response: the shipped exception
\* with the trace as its only argument.
RemoteRaiseKeepsArgs(r) == r.exc

RemoteRaise(r) == [r.exc EXCEPT !.args = <<r.traceback>>]

\* CompiledSubprocess._send, second half: pickle_load of the response and what
\* follows it.
Recv ==
    /\ UNCHANGED restVars
    /\ hpc = "recv"
    /\ \/ /\ respChan # <<>>
          /\ Head(respChan).wire = "ok"
          /\ LET r == Head(respChan)
             IN /\ respChan' = Tail(respChan)
                /\ nRead' = nRead + 1
                /\ IF r.is_exception
                   THEN Finish([kind |-> "raise", exc |-> RemoteRaise(r),
                                val |-> NoVal, why |-> "remote",
                                seq |-> hreq.seq, rseq |-> r.seq])
                   ELSE IF hreq.real
                   THEN Finish([kind |-> "return", exc |-> NoExc, val |-> r.val,
                                why |-> "ok", seq |-> hreq.seq, rseq |-> r.seq])
                   ELSE \* a deletion notice was answered: run goes on
                        /\ hpc' = "run"
                        /\ answered' = Append(answered, hreq.ctx)
                        /\ UNCHANGED <<hres, hreq, runStart>>
                /\ UNCHANGED <<mgrVars, workerVars>>
       \/ /\ respChan # <<>>
          /\ Head(respChan).wire = "trunc"
          /\ respChan' = Tail(respChan)
          /\ \E e \in TruncatedLoadErrors :
               IF e = "EOFError"
               THEN /\ SetMgr(_kill(Mgr))
                    /\ WorkerAfter(_kill(Mgr))
                    /\ Finish(InternalError("EOF", hreq))
               ELSE /\ Finish(OtherError(e, "decode_error", hreq))
                    /\ UNCHANGED <<mgrVars, workerVars>>
          /\ UNCHANGED nRead
       \/ /\ respChan = <<>>
          /\ wstate \in {"dead", "exit0"}
          /\ SetMgr(_kill(Mgr))
          /\ WorkerAfter(_kill(Mgr))
          /\ Finish(InternalError("EOF", hreq))
          /\ UNCHANGED <<respChan, nRead>>
    /\ UNCHANGED <<_infer_state_deletion_queue, dispVars, hop, hprev, reqChan,
                   nCalls, nWritten, passed>>

\* CompiledSubprocess._kill called by the owner of the manager
Terminate ==
    /\ UNCHANGED restVars
    /\ hpc = "idle"
    /\ nKill < MaxKill
    /\ SetMgr(_kill(Mgr))
    /\ WorkerAfter(_kill(Mgr))
    /\ UNCHANGED <<_infer_state_deletion_queue, dispVars, hostVars, reqChan, respChan,
                   nCalls, nWritten, nRead, passed, runVars>>

\* The host process ends at once (it is killed): no finalizer runs, its ends
\* of the pipes close.  A request it was writing may be left cut in the pipe.
HostDies ==
    /\ UNCHANGED <<handleVars, accessVars>>
    /\ hpc # "gone"
    /\ hpc' = "gone"
    /\ \E cut \in BOOLEAN :
         /\ cut => (hpc = "send" /\ ~is_crashed /\ hreq.pick /\ wstate = "running")
         /\ reqEnd' = IF cut THEN "cut" ELSE "closed"
    /\ UNCHANGED <<mgrVars, _infer_state_deletion_queue, dispVars, hop, hreq, hres,
                   hprev, workerVars, reqChan, respChan, nCalls, nWritten, nRead,
                   passed, runVars>>

\* ---------------------------------------------------------- worker actions
\* Listener.listen: pickle_load of one request and _run under try/except.  What
\* _run raises outside Exception leaves listen: the process ends, SystemExit
\* with exit code 0, and no response is written.
ListenLoad ==
    /\ UNCHANGED restVars
    /\ wstate = "running"
    /\ wpc = "load"
    /\ reqChan # <<>>
    /\ LET p == Head(reqChan)
           r == _run(p, _infer_states, nSessions, wregs)
           c == p.ctx
       IN /\ reqChan' = Tail(reqChan)
          /\ IF r.escaped
             THEN /\ wstate' = "exit0"
                  /\ WorkerGone
             ELSE /\ wstate' = wstate
                  /\ _infer_states' = r.states
                  /\ nSessions' = r.n
                  /\ wregs' = r.regs
                  /\ wres' = [r.resp EXCEPT !.seq = p.seq]
                  /\ wpc' = "dump"
                  /\ IF c = NoneId
                     THEN UNCHANGED <<created, sessUsed, deletedSess>>
                     ELSE IF p.fn = NoneFn
                     THEN /\ created' = IF r.resp.is_exception THEN created
                                        ELSE [created EXCEPT ![c] = 0]
                          /\ sessUsed' = IF r.resp.is_exception THEN sessUsed
                                         ELSE [sessUsed EXCEPT ![c] = <<>>]
                          /\ deletedSess' =
                                 IF r.resp.is_exception THEN deletedSess
                                 ELSE deletedSess \cup {<<c, _infer_states[c]>>}
                     ELSE /\ created' = [created EXCEPT ![c] = @ + (r.n - nSessions)]
                          /\ sessUsed' = [sessUsed EXCEPT ![c] = Append(@, r.sess)]
                          /\ UNCHANGED deletedSess
    /\ UNCHANGED <<is_crashed, memo_process, _cleanup_callable, nSpawned, nCleanup,
                   nKill, _infer_state_deletion_queue, dispVars, hostVars, respChan,
                   nCalls, nWritten, nRead, passed, runVars>>

\* Listener.listen: pickle_dump of the response.  It is outside the try: when
\* the host is gone (BrokenPipeError) or pickle cannot dump the response, the
\* error leaves listen and the process ends with a traceback; a part of the
\* response may have been written.
ListenDump ==
    /\ UNCHANGED restVars
    /\ wstate = "running"
    /\ wpc = "dump"
    /\ IF hpc = "gone"
       THEN /\ wstate' = "dead"
            /\ WorkerGone
            /\ UNCHANGED respChan
       ELSE IF ~wres.pick
       THEN /\ wstate' = "dead"
            /\ WorkerGone
            /\ \E partial \in BOOLEAN :
                 respChan' = IF partial THEN Append(respChan, Truncated) ELSE respChan
       ELSE /\ respChan' = Append(respChan, wres)
            /\ wpc' = "load"
            /\ wres' = NoResp
            /\ UNCHANGED <<wstate, _infer_states, nSessions, created, sessUsed,
                           deletedSess, wregs>>
    /\ UNCHANGED <<is_crashed, memo_process, _cleanup_callable, nSpawned, nCleanup,
                   nKill, _infer_state_deletion_queue, dispVars, hostVars, reqChan,
                   nCalls, nWritten, nRead, passed, runVars>>

\* Listener.listen: pickle_load at the end of the request stream.  At a request
\* boundary it raises EOFError; inside a request it raises EOFError or another
\* unpickling error, depending on where the bytes stop.  EOFError is answered
\* by exit(0); any other error leaves listen with a traceback.
ListenEOF ==
    /\ UNCHANGED restVars
    /\ wstate = "running"
    /\ wpc = "load"
    /\ reqChan = <<>>
    /\ reqEnd # "open"
    /\ \E e \in (IF reqEnd = "closed" THEN {"EOFError"} ELSE TruncatedLoadErrors) :
         wstate' = IF e = "EOFError" THEN "exit0" ELSE "dead"
    /\ WorkerGone
    /\ UNCHANGED <<is_crashed, memo_process, _cleanup_callable, nSpawned, nCleanup,
                   nKill, _infer_state_deletion_queue, dispVars, hostVars, reqChan,
                   respChan, nCalls, nWritten, nRead, passed, runVars>>

\* The worker dies on its own (segfault, out of memory, uncaught error); inside
\* pickle_dump it may leave a part of the response in the pipe.
WorkerCrash ==
    /\ UNCHANGED restVars
    /\ wstate = "running"
    /\ wstate' = "dead"
    /\ \E partial \in BOOLEAN :
         /\ partial => wpc = "dump"
         /\ respChan' = IF partial THEN Append(respChan, Truncated) ELSE respChan
    /\ WorkerGone
    /\ UNCHANGED <<is_crashed, memo_process, _cleanup_callable, nSpawned, nCleanup,
                   nKill, _infer_state_deletion_queue, dispVars, hostVars, reqChan,
                   nCalls, nWritten, nRead, passed, runVars>>

Next ==
    \/ \E c \in Ctx : New(c)
    \/ \E c \in Ctx : Del(c)
    \/ \E c \in Ctx, a \in CallArgs : Call(c, a.fn, a.pick, a.obj, a.harg)
    \/ RunLoop
    \/ GetSysPath
    \/ Send
    \/ Recv
    \/ Terminate
    \/ ListenLoad
    \/ ListenDump
    \/ WorkerCrash

Spec == Init /\ [][Next]_vars

\* The calls a caller can make with handles and with operations that end the
\* worker's loop.
HandleCallArgs ==
    CallArgs
    \cup {Args(f, TRUE, 0, 0) : f \in {"f_lookup", "f_exit", "f_raise_unpicklable"}}
    \cup {Args("f_create", TRUE, i, 0) : i \in HandleIds}
    \cup {Args("f_ok", TRUE, 0, i) : i \in HandleIds}

NextCalls ==
    \/ \E c \in Ctx : New(c)
    \/ \E c \in Ctx : Del(c)
    \/ \E c \in Ctx, a \in HandleCallArgs : Call(c, a.fn, a.pick, a.obj, a.harg)
    \/ RunLoop
    \/ Send
    \/ Recv
    \/ ListenLoad
    \/ ListenDump
    \/ ListenEOF
    \/ HostDies

\* The calls of the dispatchers with handle arguments, up to the death of the
\* host process; the worker is not killed from outside.
SpecCalls == Init /\ [][NextCalls]_vars

\* A method call on the handle: handle.name(*args, **kwargs); ok tells whether
\* the dispatcher call, if one is made, returns.
AccessCall(k, ok) ==
    /\ nAccess < MaxAccess
    /\ nAccess' = nAccess + 1
    /\ LET r == __getattr__(k, _memoize_method_dct, nDispatch, ok)
       IN /\ _memoize_method_dct' = r.cache
          /\ nDispatch' = r.n
          /\ acall' = r.call
    /\ UNCHANGED <<mgrVars, _infer_state_deletion_queue, dispVars, hostVars, workerVars,
                   reqChan, respChan, reqEnd, nCalls, nWritten, nRead, passed, runVars,
                   handleVars>>

NextAccess == \E k \in AccessKeys, ok \in BOOLEAN : AccessCall(k, ok)

\* One AccessHandle of the host and the method calls made on it.
SpecAccess == Init /\ [][NextAccess]_vars

\* InferenceStateSubprocess.__getattr__.wrapper after run returned: the result
\* w of message nConv + 1 is unpickled and its handles are rewritten.
WrapperReturn(w) ==
    /\ nConv < MaxConv
    /\ nConv' = nConv + 1
    /\ decoded' = Unpickle(w, nConv + 1)
    /\ LET r == _convert_access_handles(Unpickle(w, nConv + 1), _handles)
       IN /\ converted' = r.obj
          /\ _handles' = r.reg
    /\ UNCHANGED <<mgrVars, _infer_state_deletion_queue, dispVars, hostVars, workerVars,
                   reqChan, respChan, reqEnd, nCalls, nWritten, nRead, passed, runVars,
                   accessVars>>

\* An operation in the worker wraps the object of id i for the session of
\* context c: compiled_subprocess.get_or_create_access_handle(obj).
GetOrCreate(c, i) ==
    /\ nConv < MaxConv
    /\ nConv' = nConv + 1
    /\ wregs' = [wregs EXCEPT
                    ![c] = get_or_create_access_handle(@, i, "worker", nConv + 1).reg]
    /\ UNCHANGED <<mgrVars, _infer_state_deletion_queue, dispVars, hostVars,
                   wpc, wres, _infer_states, nSessions, created, sessUsed, deletedSess,
                   reqChan, respChan, reqEnd, nCalls, nWritten, nRead, passed, runVars,
                   _handles, decoded, converted, accessVars>>

NextHandles == \E w \in WireValues : WrapperReturn(w)

\* One dispatcher and the results its calls receive, the transport left aside.
SpecHandles == Init /\ [][NextHandles]_vars

\* Results that are a handle, a scalar, or a list of one or two handles.
RegistryResults ==
    Leaves \cup {Val("list", q) : q \in ShortSeqs({Handle(i) : i \in HandleIds})}

NextRegistry ==
    \/ \E w \in RegistryResults : WrapperReturn(w)
    \/ \E c \in Ctx, i \in HandleIds : GetOrCreate(c, i)

\* The handle registries seen alone, the transport left aside: the registry of
\* one dispatcher and the results its calls receive, and the registries of the
\* worker's sessions and the objects its operations wrap.
SpecRegistry == Init /\ [][NextRegistry]_vars

\* ================================================================== claims

\* C1: the crashed state is absorbing: once is_crashed is true it stays true,
\* and every later _send (alone, from run or from get_sys_path) ends the
\* operation with InternalError at once: no request byte is written, nothing
\* is read from the response pipe and no worker process is spawned.
C1_CrashedIsAbsorbing ==
    [][is_crashed =>
         /\ is_crashed'
         /\ nWritten' = nWritten /\ reqChan' = reqChan
         /\ nRead' = nRead /\ respChan' = respChan
         /\ nSpawned' = nSpawned /\ memo_process' = memo_process
         /\ hpc' # "recv"
         /\ (hpc = "run" /\ hpc' # hpc) => hpc' = "send"
         /\ (hpc = "send" /\ hpc' # hpc) =>
               /\ hpc' = "idle"
               /\ hres'.kind = "raise"
               /\ hres'.exc.type = "InternalError"
               /\ hres'.why = "crashed"]_vars

\* A run on a manager that crashed after its worker was spawned was refused.
C1_Witness ==
    /\ is_crashed
    /\ memo_process = "proc"
    /\ hop.kind = "run"
    /\ hpc = "idle"
    /\ hres.why = "crashed"

\* The write of _send is about to hit a closed pipe.
BrokenAtWrite ==
    /\ hpc = "send" /\ ~is_crashed /\ hreq.pick
    /\ memo_process = "proc" /\ wstate = "dead"

\* The read of _send is about to hit the end of the stream.
BrokenAtRead == hpc = "recv" /\ respChan = <<>> /\ wstate = "dead"

\* C2: a _send that observes a broken channel (its write fails with a closed
\* pipe, or its read hits end-of-stream) leaves the manager crashed and ends by
\* raising InternalError; it returns no value.
C2_BrokenChannelCrashes ==
    /\ [](hres.why \in {"EPIPE", "EOF"} =>
            /\ is_crashed
            /\ hres.kind = "raise"
            /\ hres.exc.type = "InternalError")
    /\ [][((BrokenAtWrite \/ BrokenAtRead) /\ hpc' # hpc) =>
            /\ is_crashed'
            /\ hpc' = "idle"
            /\ hres'.kind = "raise"
            /\ hres'.exc.type = "InternalError"
            /\ hres'.why \in {"EPIPE", "EOF"}]_vars

\* A read hit end-of-stream after the request had been written.
C2_Witness ==
    /\ hres.why = "EOF"
    /\ is_crashed
    /\ nWritten > nRead
    /\ nCleanup = 1

\* The host is about to read a failure response.
FailureResponseAtHead ==
    /\ hpc = "recv" /\ respChan # <<>>
    /\ Head(respChan).wire = "ok" /\ Head(respChan).is_exception

\* C3: a remote execution failure is local to one call: on a failure response
\* the host call raises the shipped exception with the trace text as its
\* message, the manager does not become crashed, both pipes are empty
\* afterwards (the stream is aligned), and a call that returns returns the
\* result of its own request.
C3_RemoteFailureIsLocal ==
    /\ [][(FailureResponseAtHead /\ hpc' # hpc) =>
            /\ hres'.kind = "raise"
            /\ hres'.exc.type = Head(respChan).exc.type
            /\ hres'.exc.args = <<Head(respChan).traceback>>
            /\ ~is_crashed'
            /\ hpc' = "idle"
            /\ reqChan' = <<>> /\ respChan' = <<>>
            /\ nRead' = nWritten']_vars
    /\ [](hres.kind = "return" =>
            /\ hres.val.fn = hop.fn
            /\ hres.rseq = hres.seq
            /\ (hop.kind = "run") = (hres.val.sess # 0))

\* A call returned its result right after a call that raised a remote failure.
C3_Witness ==
    /\ hprev
    /\ hres.why = "ok"
    /\ hres.kind = "return"
    /\ ~is_crashed

\* C4: no pipelining: a request is written only when every request written
\* before has had its response read; requests written minus responses read is
\* 0 or 1; the response a _send reads answers the request that _send wrote.
C4_NoPipelining ==
    /\ [](/\ nWritten - nRead \in {0, 1}
          /\ Len(reqChan) + Len(respChan) <= 1
          /\ (hres.why \in {"ok", "remote"} => hres.rseq = hres.seq))
    /\ [][/\ (nWritten' # nWritten) =>
                /\ nWritten = nRead
                /\ reqChan = <<>> /\ respChan = <<>>
                /\ nWritten' = nWritten + 1
          /\ (nRead' # nRead) =>
                /\ Head(respChan).seq = hreq.seq
                /\ nRead' = nWritten]_vars

\* A run had its deletion notice answered, wrote its real request, and the
\* answer to that request is what waits in the response pipe.
C4_Witness ==
    /\ hop.kind = "run" /\ hpc = "recv" /\ hreq.real
    /\ answered # <<>>
    /\ nRead >= 2
    /\ nWritten = nRead + 1
    /\ respChan # <<>>
    /\ Head(respChan).seq = hreq.seq

\* A sequence back to front: the order in which run pops the queue.
Reverse(s) == [i \in 1..Len(s) |-> s[Len(s) + 1 - i]]

\* The real request of a run has been written.
RealRequestWritten == hop.kind = "run" /\ hpc = "recv" /\ hreq.real

\* C5: deferred context deletion: delete_infer_state writes nothing to the
\* channel; when a run has written its real request, every id that was in the
\* queue when the run began has had its notice written and answered (in pop
\* order) and the queue is empty; and no session object removed by a deletion
\* notice is in the session map or used by a call afterwards: a later call for
\* that id gets a session object made anew.
C5_DeferredDeletion ==
    /\ [][Len(_infer_state_deletion_queue') > Len(_infer_state_deletion_queue) =>
            /\ nWritten' = nWritten
            /\ reqChan' = reqChan /\ respChan' = respChan]_vars
    /\ [](RealRequestWritten =>
            /\ answered = Reverse(runStart)
            /\ _infer_state_deletion_queue = <<>>)
    /\ [](\A c \in Ctx :
            /\ <<c, _infer_states[c]>> \notin deletedSess
            /\ \A i \in 1..Len(sessUsed[c]) : <<c, sessUsed[c][i]>> \notin deletedSess)
    /\ [][\A c \in Ctx :
            (/\ wpc = "load" /\ wpc' = "dump" /\ reqChan # <<>>
             /\ Head(reqChan).ctx = c /\ Head(reqChan).fn # NoneFn
             /\ _infer_states[c] = 0) =>
                /\ nSessions' = nSessions + 1
                /\ _infer_states'[c] = nSessions']_vars

\* A context was deleted by a notice and a later call for it returned from a
\* session object made anew.
C5_Witness ==
    \E c \in Ctx :
        /\ \E p \in deletedSess : p[1] = c
        /\ _infer_states[c] # 0
        /\ hop.ctx = c
        /\ hres.why = "ok"
        /\ hres.val.sess = _infer_states[c]

\* C6: at most one live session per context id: the calls naming one id with no
\* deletion notice for it in between make exactly one session object and all
\* run on it, and two ids never share a session object.
C6_OneSessionPerId ==
    /\ \A c \in Ctx :
         /\ created[c] <= 1
         /\ (created[c] = 1) = (_infer_states[c] # 0)
         /\ (sessUsed[c] # <<>>) => created[c] = 1
         /\ \A i \in 1..Len(sessUsed[c]) : sessUsed[c][i] = _infer_states[c]
    /\ \A c, d \in Ctx :
         (c # d /\ _infer_states[c] # 0) => _infer_states[c] # _infer_states[d]

\* Two calls ran on the one session object of their context id.
C6_Witness ==
    \E c \in Ctx :
        /\ Len(sessUsed[c]) >= 2
        /\ created[c] = 1
        /\ wstate = "running"

\* The handles of a value, as deep as sequences, parameter descriptors and
\* access paths nest.
RECURSIVE HandlesIn(_)
HandlesIn(v) ==
    IF v.t = "handle" THEN {v}
    ELSE IF v.t \in {"SignatureParam", "tuple", "list", "AccessPath"}
    THEN UNION {HandlesIn(v.items[k]) : k \in 1..Len(v.items)}
    ELSE {}

\* A value without the identity of its handle objects: types, ids and order.
RECURSIVE Shape(_)
Shape(v) ==
    [t |-> v.t, id |-> v.id,
     items |-> [k \in 1..Len(v.items) |-> Shape(v.items[k])]]

\* C7: handle identity stability: every handle of remote id i in a result, at
\* any depth of sequences, parameter descriptors and access paths, comes back
\* as the one host instance registered for i when i was first seen; different
\* ids have different instances; and the rewritten result has the types,
\* ids and element order of the decoded one.
C7_HandleIdentity ==
    /\ [](/\ \A h \in HandlesIn(converted) : h = _handles[h.id]
          /\ Shape(converted) = Shape(decoded)
          /\ \A i \in HandleIds :
                _handles[i] # NoHandle =>
                    /\ _handles[i].id = i
                    /\ _handles[i].inst \in 1..nConv
          /\ \A h \in HandlesIn(decoded) : _handles[h.id] # NoHandle)
    /\ [][\A i \in HandleIds :
            /\ _handles[i] # NoHandle => _handles'[i] = _handles[i]
            /\ (_handles[i] = NoHandle /\ _handles'[i] # NoHandle) =>
                  _handles'[i].inst = nConv']_vars

\* A nested result named an id first seen in an earlier result, and its handle
\* came back as the instance registered then, next to one first seen now.
C7_Witness ==
    /\ nConv >= 2
    /\ converted.t \in {"tuple", "list", "AccessPath"}
    /\ \E h \in HandlesIn(converted) : h.inst < nConv /\ h \notin HandlesIn(decoded)
    /\ \E h \in HandlesIn(converted) : h.inst = nConv
    /\ \E k \in 1..Len(converted.items) : converted.items[k].t # "handle"
                                            /\ HandlesIn(converted.items[k]) # {}

\* C8 (as claimed): a response that fails to decode in any way, not only with
\* end-of-stream, leaves the manager crashed.
C8_DecodeFailureCrashes ==
    hres.why = "decode_error" => is_crashed

\* C9: at most one worker process per manager, spawned lazily: none before the
\* first _send that passes the is_crashed test, at most one afterwards, none
\* more on a crashed manager, and none by terminate.
C9_OneLazyWorker ==
    /\ [](/\ nSpawned <= 1
          /\ ~passed => nSpawned = 0
          /\ (nSpawned = 1) = (memo_process = "proc")
          /\ (nSpawned = 0) = (wstate = "none"))
    /\ [][/\ is_crashed => nSpawned' = nSpawned
          /\ (nKill' # nKill /\ hpc = "idle") => nSpawned' = nSpawned
          /\ (nSpawned' # nSpawned) => (hpc = "send" /\ ~is_crashed)]_vars

\* The one worker served two requests and the manager then crashed.
C9_Witness ==
    /\ nSpawned = 1
    /\ nRead >= 2
    /\ is_crashed
    /\ nKill >= 1

\* The manager state without the count of _kill calls.
KillState(m) == [m EXCEPT !.nKill = 0]

\* C10: _kill is idempotent: a second call changes nothing of the manager, and
\* the cleanup of the worker (kill, join, close) runs at most once.
C10_KillIdempotent ==
    /\ [](/\ nCleanup <= 1
          /\ KillState(_kill(_kill(Mgr))) = KillState(_kill(Mgr))
          /\ _kill(Mgr).is_crashed
          /\ (nCleanup = 1) = (_cleanup_callable = "dead"))
    /\ [][(nKill' # nKill /\ is_crashed) =>
            UNCHANGED <<is_crashed, memo_process, _cleanup_callable, wstate,
                        nSpawned, nCleanup, _infer_state_deletion_queue>>]_vars

\* terminate was called twice on a manager whose worker had been spawned.
C10_Witness ==
    /\ nKill >= 2
    /\ nCleanup = 1
    /\ is_crashed

\* C11 (as claimed): the deletion queue is flushed at the start of every send,
\* for run and for get_sys_path alike: a real request is written only when the
\* queue is empty, and the queue is empty when the call returns its result.
C11_FlushOnEverySend ==
    [][/\ (nWritten' = nWritten + 1 /\ hreq'.real) =>
              _infer_state_deletion_queue = <<>>
       /\ (hpc = "recv" /\ hpc' = "idle" /\ hres'.why = "ok") =>
              _infer_state_deletion_queue' = <<>>]_vars

\* C12: __del__ of a dispatcher appends its context id to the deletion queue
\* if and only if the dispatcher issued a call (_used) and the manager is not
\* crashed; otherwise the queue is left as it was.  _used is false on a new
\* dispatcher and set by every call, whatever the call's outcome.
C12_TeardownEnqueues ==
    /\ [][\A c \in Ctx :
            (live[c] /\ ~live'[c]) =>
                _infer_state_deletion_queue' =
                    IF _used[c] /\ ~is_crashed
                    THEN Append(_infer_state_deletion_queue, c)
                    ELSE _infer_state_deletion_queue]_vars
    /\ [][\A c \in Ctx :
            /\ (~live[c] /\ live'[c]) => ~_used'[c]
            /\ (hpc = "idle" /\ hpc' = "run" /\ hop'.ctx = c) => _used'[c]
            /\ (live[c] /\ live'[c] /\ _used[c]) => _used'[c]]_vars

\* A dispatcher whose only call failed was torn down on a healthy manager and
\* its id is pending, while the other dispatcher, torn down unused, is not.
C12_Witness ==
    /\ ~is_crashed
    /\ hpc = "idle"
    /\ hres.kind = "raise"
    /\ \E c \in Ctx : /\ ~live[c]
                      /\ _infer_state_deletion_queue = <<c>>
                      /\ hop.ctx = c

\* The host is about to read the response to a request whose handle argument
\* was not registered in the resolving session.
StaleResponseAtHead ==
    /\ hpc = "recv" /\ respChan # <<>>
    /\ Head(respChan).wire = "ok"
    /\ Head(respChan).traceback = StaleHandleResponse.traceback

\* The exception classes the operations raise by themselves.
OperationErrors ==
    {Invoke(a.fn, 0).exc.type : a \in {x \in HandleCallArgs : Invoke(x.fn, 0).is_exception}}

\* C13 (as claimed): a stale handle argument is signaled to the caller as a
\* condition of its own: the call raises, the manager is not crashed, and what
\* is raised is neither the transport error (InternalError) nor of a class
\* that a failing operation raises, so the caller can tell the three apart
\* without reading the text of the trace.
C13_StaleHandleIsDistinct ==
    [][(StaleResponseAtHead /\ hpc' = "idle") =>
          /\ ~is_crashed'
          /\ hres'.kind = "raise"
          /\ hres'.exc.type # "InternalError"
          /\ hres'.exc.type \notin OperationErrors]_vars

\* C14 (as claimed): while the host lives, every request the listener decodes
\* is followed by the dump of one response for it, after which the listener
\* reads again: no handler outcome ends the loop.
C14_OneResponsePerRequest ==
    [][(wstate = "running" /\ hpc' # "gone") =>
          /\ (wpc = "load" /\ reqChan' # reqChan) =>
                /\ wstate' = "running"
                /\ wpc' = "dump"
                /\ wres'.seq = Head(reqChan).seq
                /\ wres'.is_exception =>
                      (wres'.traceback # "None" /\ wres'.exc # NoExc)
          /\ (wpc = "dump" /\ respChan' # respChan) =>
                respChan' = Append(respChan, wres)
          /\ (wpc = "dump" /\ (wpc' # wpc \/ wstate' # wstate)) =>
                /\ respChan' = Append(respChan, wres)
                /\ wstate' = "running"
                /\ wpc' = "load"]_vars

\* C15 (as claimed): the listener exits with code zero only when pickle_load
\* meets the end of the request stream at a request boundary, and it writes
\* no response then.
C15_CleanExitOnlyAtBoundary ==
    [][(wstate = "running" /\ wstate' = "exit0") =>
          /\ wpc = "load"
          /\ reqChan = <<>>
          /\ reqEnd = "closed"
          /\ respChan' = respChan]_vars

\* C16: what one request does to the session map of the listener: with a none
\* context id nothing; with a context id and a none function the entry of that
\* id is gone afterwards and every other entry is as before; with any other
\* request the id has a session afterwards, the one it had if it had one, and
\* every other entry is as before.
C16_SessionMapFrame ==
    [][(/\ wstate = "running" /\ wpc = "load" /\ reqChan # <<>>
        /\ reqChan' = Tail(reqChan) /\ wstate' = "running") =>
          LET p == Head(reqChan)
          IN /\ p.ctx = NoneId => _infer_states' = _infer_states
             /\ (p.ctx # NoneId /\ p.fn = NoneFn) =>
                   /\ _infer_states'[p.ctx] = 0
                   /\ \A d \in Ctx \ {p.ctx} : _infer_states'[d] = _infer_states[d]
             /\ (p.ctx # NoneId /\ p.fn # NoneFn) =>
                   /\ _infer_states'[p.ctx] # 0
                   /\ _infer_states[p.ctx] # 0 => _infer_states' = _infer_states
                   /\ _infer_states[p.ctx] = 0 =>
                         \A d \in Ctx : _infer_states[d] # _infer_states'[p.ctx]
                   /\ \A d \in Ctx \ {p.ctx} : _infer_states'[d] = _infer_states[d]]_vars

\* The listener has just served a deletion notice: the session of its id is
\* gone and the session of another id is still there.
C16_Witness ==
    /\ wstate = "running"
    /\ wpc = "dump"
    /\ hpc = "recv"
    /\ ~hreq.real
    /\ wres.seq = hreq.seq
    /\ ~wres.is_exception
    /\ _infer_states[hreq.ctx] = 0
    /\ \E d \in Ctx : _infer_states[d] # 0

\* C17 (as claimed): a method call on a handle with a slice anywhere among its
\* arguments takes the raw path and makes one dispatcher call; any other call
\* takes the memoized path, where a key that already returned a result is
\* served from the cache, with that result and no dispatcher call, and a key
\* that did not makes one dispatcher call.
C17_SliceRawElseMemoized ==
    (acall # NoCall /\ acall.key.name \in OpNames) =>
        IF HasSlice(acall.key)
        THEN acall.path = "raw" /\ acall.dispatched = 1
        ELSE /\ acall.path = "memoized"
             /\ acall.dispatched = IF acall.known THEN 0 ELSE 1
             /\ acall.known => acall.outcome = "return"
             /\ acall.outcome = "return" =>
                   acall.result = _memoize_method_dct[acall.key]

\* C18 (as claimed): a deletion notice the worker is about to read names a
\* context id that has a session in the worker's map.
C18_NoticeNamesLiveSession ==
    (/\ wstate = "running" /\ wpc = "load" /\ reqChan # <<>>
     /\ Head(reqChan).fn = NoneFn /\ Head(reqChan).ctx # NoneId)
        => _infer_states[Head(reqChan).ctx] # 0

\* A run is flushing: a deletion notice is being sent or awaits its response.
NoticeInFlight == hop.kind = "run" /\ hpc \in {"send", "recv"} /\ ~hreq.real

\* C19: within one run, the ids pending at its start are popped one by one
\* from the right, each before its notice is sent and so sent at most once;
\* the real request is written only after each of them got a success
\* response; a notice that gets a failure response or meets a broken channel
\* ends run with that error, nothing more is written, and the ids not yet
\* popped stay in the queue.
C19_FlushThenRequest ==
    /\ []((hop.kind = "run" /\ hpc # "idle") =>
            /\ runStart = _infer_state_deletion_queue
                            \o (IF NoticeInFlight THEN <<hreq.ctx>> ELSE <<>>)
                            \o Reverse(answered)
            /\ (hpc \in {"send", "recv"} /\ hreq.real) =>
                  /\ _infer_state_deletion_queue = <<>>
                  /\ answered = Reverse(runStart))
    /\ [][(NoticeInFlight /\ hpc' = "idle") =>
            /\ hres'.kind = "raise"
            /\ hres'.why \in {"remote", "EPIPE", "EOF", "crashed", "spawn_error",
                               "decode_error"}
            /\ nWritten' = nWritten
            /\ reqChan' = reqChan
            /\ _infer_state_deletion_queue' = _infer_state_deletion_queue
            /\ \E k \in 0..Len(runStart) :
                  _infer_state_deletion_queue = SubSeq(runStart, 1, k)]_vars

\* A run with two pending ids ended on the failure response to its first
\* notice: the other id is still pending.
C19_Witness ==
    /\ hop.kind = "run"
    /\ hpc = "idle"
    /\ hres.why = "remote"
    /\ hres.exc.type = "KeyError"
    /\ nWritten = nRead
    /\ Len(_infer_state_deletion_queue) >= 1

\* The entries of a registry.
Keys(reg) == {i \in HandleIds : reg[i] # NoHandle}

\* get_or_create_access_handle on registry reg of owner o, for every id: a
\* registered id gives the registered handle and the same registry; another
\* id gives a handle of that id and owner, registered under that id alone.
GetOrCreateOk(reg, o, inst) ==
    \A i \in HandleIds :
        LET g == get_or_create_access_handle(reg, i, o, inst)
        IN IF i \in Keys(reg)
           THEN g.handle = reg[i] /\ g.reg = reg
           ELSE /\ g.handle.id = i /\ g.handle.owner = o /\ g.handle.t = "handle"
                /\ g.reg[i] = g.handle
                /\ Keys(g.reg) = Keys(reg) \cup {i}
                /\ \A k \in Keys(reg) : g.reg[k] = reg[k]

\* C20: registry consistency on both sides: each key k holds a handle of id k;
\* get_or_create_access_handle returns the registered handle of a registered
\* id and leaves the registry as it is, and adds exactly one entry otherwise;
\* no step removes or replaces an entry of a registry (the registry of a
\* worker session lives as long as the session); and every handle in the
\* dispatcher's registry has the dispatcher as its _subprocess.
C20_RegistryConsistent ==
    /\ [](/\ \A i \in Keys(_handles) :
                /\ _handles[i].t = "handle"
                /\ _handles[i].id = i
                /\ _handles[i].owner = "host"
          /\ \A c \in Ctx : \A i \in Keys(wregs[c]) :
                /\ wregs[c][i].t = "handle"
                /\ wregs[c][i].id = i
                /\ wregs[c][i].owner = "worker"
          /\ GetOrCreateOk(_handles, "host", nConv + 1)
          /\ \A c \in Ctx : GetOrCreateOk(wregs[c], "worker", nConv + 1))
    /\ [][/\ \A i \in Keys(_handles) : _handles'[i] = _handles[i]
          /\ Cardinality(Keys(_handles')) <=
                Cardinality(Keys(_handles)) + Cardinality(HandlesIn(decoded'))
          /\ \A c \in Ctx :
                _infer_states'[c] = _infer_states[c] =>
                    /\ \A i \in Keys(wregs[c]) : wregs'[c][i] = wregs[c][i]
                    /\ Cardinality(Keys(wregs'[c])) <= Cardinality(Keys(wregs[c])) + 1]_vars

\* A session's registry got a handle, then the dispatcher's registry got the
\* handles of a result, then a second get_or_create for the id registered in
\* the session made nothing.
C20_Witness ==
    /\ nConv = 3
    /\ Keys(_handles) # {}
    /\ \A i \in Keys(_handles) : _handles[i].inst = 2
    /\ HandlesIn(decoded) # {}
    /\ \A h \in HandlesIn(decoded) : h.inst = 2
    /\ \E c \in Ctx :
          /\ \E i \in Keys(wregs[c]) : wregs[c][i].inst = 1
          /\ \A d \in Ctx : Cardinality(Keys(wregs[d])) = IF d = c THEN 1 ELSE 0

====
